---- MODULE Spec2Model ----
(***************************************************************************)
(* A model of the cusip crate (src/src/lib.rs, src/src/checksum.rs,        *)
(* src/src/error.rs): the checksum engine, the format validators, the      *)
(* parse / build / validate entry points and the CUSIP value type.         *)
(*                                                                         *)
(* A Rust &str is modelled as a sequence of Unicode scalar values (1-based *)
(* TLA+ sequence); a Rust byte slice or array is modelled as a function    *)
(* over 0..n-1, as the code indexes it.  str::len and str::as_bytes go     *)
(* through the UTF-8 encoding.                                             *)
(***************************************************************************)
EXTENDS Integers, Sequences, FiniteSets, TLC

VARIABLES text, cusip, res, edits

vars == <<text, cusip, res, edits>>

(***************************************************************************)
(* Bounds of the model.                                                    *)
(***************************************************************************)
\* Number of caller edits applied to a seed string before an entry point is called.
MaxEdits == 1

(***************************************************************************)
(* Byte slices: functions over 0..n-1.                                     *)
(***************************************************************************)
U8_MAX == 255

\* Outcome markers of a computation that does not return a u8.
PANIC == -1
OVERFLOW == -2

EmptyBytes == [i \in {} |-> 0]

BLen(b) == Cardinality(DOMAIN b)

\* &b[lo..hi]
Slice(b, lo, hi) == [i \in 0..(hi - lo - 1) |-> b[lo + i]]

\* A sequence <<b0, b1, ...>> as a byte slice.
BytesOf(sq) == [i \in 0..(Len(sq) - 1) |-> sq[i + 1]]

(***************************************************************************)
(* str: UTF-8 encoding of a sequence of scalar values.                     *)
(***************************************************************************)
utf8_len(c) ==
    IF c < 128 THEN 1
    ELSE IF c < 2048 THEN 2
    ELSE IF c < 65536 THEN 3
    ELSE 4

utf8_encode(c) ==
    IF c < 128 THEN <<c>>
    ELSE IF c < 2048 THEN <<192 + (c \div 64), 128 + (c % 64)>>
    ELSE IF c < 65536 THEN
        <<224 + (c \div 4096), 128 + ((c \div 64) % 64), 128 + (c % 64)>>
    ELSE
        <<240 + (c \div 262144), 128 + ((c \div 4096) % 64),
          128 + ((c \div 64) % 64), 128 + (c % 64)>>

RECURSIVE utf8_seq(_)
utf8_seq(s) ==
    IF s = <<>> THEN <<>> ELSE utf8_encode(Head(s)) \o utf8_seq(Tail(s))

\* str::as_bytes
as_bytes(s) == BytesOf(utf8_seq(s))

\* str::len: the length in bytes
str_len(s) == BLen(as_bytes(s))

\* u8::is_ascii_digit, u8::is_ascii_alphabetic, u8::is_ascii_uppercase
is_ascii_digit(b) == b >= 48 /\ b <= 57
is_ascii_uppercase(b) == b >= 65 /\ b <= 90
is_ascii_lowercase(b) == b >= 97 /\ b <= 122
is_ascii_alphabetic(b) == is_ascii_uppercase(b) \/ is_ascii_lowercase(b)

\* str::to_ascii_uppercase
char_to_ascii_uppercase(c) == IF is_ascii_lowercase(c) THEN c - 32 ELSE c
to_ascii_uppercase(s) == [i \in 1..Len(s) |-> char_to_ascii_uppercase(s[i])]

\* char::is_whitespace: the Unicode White_Space property
WhiteSpace ==
    {9, 10, 11, 12, 13, 32, 133, 160, 5760} \cup (8192..8202)
        \cup {8232, 8233, 8239, 8287, 12288}

is_whitespace(c) == c \in WhiteSpace

RECURSIVE trim_start(_)
trim_start(s) ==
    IF s # <<>> /\ is_whitespace(Head(s)) THEN trim_start(Tail(s)) ELSE s

RECURSIVE trim_end(_)
trim_end(s) ==
    IF s # <<>> /\ is_whitespace(s[Len(s)])
    THEN trim_end(SubSeq(s, 1, Len(s) - 1))
    ELSE s

\* trim that leaves the trailing whitespace.
trim_start_only(s) == trim_start(s)

\* str::trim
trim(s) == trim_end(trim_start(s))

\* from_utf8_unchecked on a slice; the code only applies it to ASCII bytes.
\* A byte that is not ASCII has no defined reading: it is kept as -1.
from_utf8_unchecked(b) ==
    [i \in 1..BLen(b) |-> IF b[i - 1] < 128 THEN b[i - 1] ELSE -1]

(***************************************************************************)
(* checksum.rs                                                             *)
(***************************************************************************)
\* char_value that reads a lowercase letter as its uppercase.
char_value_any_case(c) ==
    IF c >= 48 /\ c <= 57 THEN c - 48
    ELSE IF c >= 65 /\ c <= 90 THEN c - 65 + 10
    ELSE IF c >= 97 /\ c <= 122 THEN c - 97 + 10
    ELSE PANIC

char_value(c) ==
    IF c >= 48 /\ c <= 57 THEN c - 48
    ELSE IF c >= 65 /\ c <= 90 THEN c - 65 + 10
    ELSE PANIC

\* MAX_ACCUM_SIMPLE without the margin of one step.
MAX_ACCUM_SIMPLE_no_margin == U8_MAX

MAX_ACCUM_SIMPLE == U8_MAX - 14

\* MAX_ACCUM_TABLE with a margin of ten steps.
MAX_ACCUM_TABLE_ten_steps == U8_MAX - 90

MAX_ACCUM_TABLE == U8_MAX - 9

OddsTable ==
    << 0, 1, 2, 3, 4, 5, 6, 7, 8, 9,
       1, 2, 3, 4, 5, 6, 7, 8, 9, 0,
       2, 3, 4, 5, 6, 7, 8, 9, 0, 1,
       3, 4, 5, 6, 7, 8 >>

\* ODDS without the fold of the tens digit.
ODDS_unfolded(v) == v % 10

ODDS(v) == OddsTable[v + 1]

EvensTable ==
    << 0, 2, 4, 6, 8,
       1, 3, 5, 7, 9,
       2, 4, 6, 8, 0,
       3, 5, 7, 9, 1,
       4, 6, 8, 0, 2,
       5, 7, 9, 1, 3,
       6, 8, 0, 2, 4,
       7 >>

\* EVENS without the fold of the tens digit.
EVENS_unfolded(v) == (2 * v) % 10

EVENS(v) == EvensTable[v + 1]

\* u8 addition: a sum past u8::MAX panics (debug) or wraps (release); the
\* loops below report it as OVERFLOW.
add_u8(a, b) == IF a + b > U8_MAX THEN OVERFLOW ELSE a + b

\* simple_vv with the parity taken on the 0-based index.
simple_vv_zero_based(i, v) == IF (i % 2) = 0 THEN v * 2 ELSE v

\* The value checksum_simple doubles or not at 0-based index i.
simple_vv(i, v) == IF ((i + 1) % 2) = 0 THEN v * 2 ELSE v

\* The guard of checksum_simple clearing the accumulator.
simple_guard_reset(sum) == IF sum > MAX_ACCUM_SIMPLE THEN 0 ELSE sum

\* One guard of checksum_simple's loop.
simple_guard(sum) == IF sum > MAX_ACCUM_SIMPLE THEN sum % 10 ELSE sum

\* The body of checksum_simple's loop from index i with accumulator sum.
RECURSIVE simple_loop(_, _, _)
simple_loop(s, i, sum) ==
    IF i >= BLen(s) THEN sum
    ELSE LET v == char_value(s[i]) IN
         IF v = PANIC THEN PANIC
         ELSE LET vv == simple_vv(i, v)
                  next == add_u8(simple_guard(sum), (vv \div 10) + (vv % 10))
              IN IF next = OVERFLOW THEN OVERFLOW ELSE simple_loop(s, i + 1, next)

\* (10 - sum % 10) % 10, or the marker the loop ended with.
finish(sum) == IF sum < 0 THEN sum ELSE (10 - (sum % 10)) % 10

checksum_simple(s) == finish(simple_loop(s, 0, 0))

\* Whether the test sum > MAX_ACCUM_SIMPLE is true at some step of
\* checksum_simple's loop from index i with accumulator sum.
RECURSIVE simple_guard_fires(_, _, _)
simple_guard_fires(s, i, sum) ==
    IF i >= BLen(s) THEN FALSE
    ELSE LET v == char_value(s[i]) IN
         IF v = PANIC THEN FALSE
         ELSE LET vv == simple_vv(i, v)
                  next == add_u8(simple_guard(sum), (vv \div 10) + (vv % 10))
              IN \/ sum > MAX_ACCUM_SIMPLE
                 \/ (next # OVERFLOW /\ simple_guard_fires(s, i + 1, next))

\* table_v with the two tables taken for each other.
table_v_swapped(i, v) == IF (i % 2) = 0 THEN ODDS(v) ELSE EVENS(v)

\* The table entry checksum_table adds at 0-based index i counted from the right.
table_v(i, v) == IF (i % 2) = 0 THEN EVENS(v) ELSE ODDS(v)

table_guard(sum) == IF sum > MAX_ACCUM_TABLE THEN sum % 10 ELSE sum

\* The body of checksum_table's loop: index i of s.iter().rev().
RECURSIVE table_loop(_, _, _)
table_loop(s, i, sum) ==
    IF i >= BLen(s) THEN sum
    ELSE LET v == char_value(s[BLen(s) - 1 - i]) IN
         IF v = PANIC THEN PANIC
         ELSE LET next == add_u8(table_guard(sum), table_v(i, v))
              IN IF next = OVERFLOW THEN OVERFLOW ELSE table_loop(s, i + 1, next)

checksum_table(s) == finish(table_loop(s, 0, 0))

\* Whether the test sum > MAX_ACCUM_TABLE is true at some step of
\* checksum_table's loop from index i with accumulator sum.
RECURSIVE table_guard_fires(_, _, _)
table_guard_fires(s, i, sum) ==
    IF i >= BLen(s) THEN FALSE
    ELSE LET v == char_value(s[BLen(s) - 1 - i]) IN
         IF v = PANIC THEN FALSE
         ELSE LET next == add_u8(table_guard(sum), table_v(i, v))
              IN \/ sum > MAX_ACCUM_TABLE
                 \/ (next # OVERFLOW /\ table_guard_fires(s, i + 1, next))

(***************************************************************************)
(* error.rs and Result values.  Every result is a record of one shape:     *)
(*   tag      "Ok", "Err" or "Panic"                                       *)
(*   kind     the CUSIPError variant of an Err                             *)
(*   len      the usize an Invalid...Length error carries in `was`         *)
(*   bytes    the byte array an InvalidIssuerNum / InvalidIssueNum carries *)
(*   was      the byte an InvalidCheckDigit / IncorrectCheckDigit carries  *)
(*   expected the byte an IncorrectCheckDigit expected                     *)
(*   val      the value of an Ok: the CUSIP's [u8; 9], or a bool           *)
(***************************************************************************)
ErrorKinds ==
    {"InvalidCUSIPLength", "InvalidPayloadLength", "InvalidIssuerNumLength",
     "InvalidIssueNumLength", "InvalidIssuerNum", "InvalidIssueNum",
     "InvalidCheckDigit", "IncorrectCheckDigit"}

Result(tag, kind, len, bytes, was, expected, val) ==
    [tag |-> tag, kind |-> kind, len |-> len, bytes |-> bytes, was |-> was,
     expected |-> expected, val |-> val]

Ok(v) == Result("Ok", "", 0, EmptyBytes, 0, 0, v)

\* Ok(()) of the format validators
OkUnit == Ok(EmptyBytes)

Panicked == Result("Panic", "", 0, EmptyBytes, 0, 0, EmptyBytes)

InvalidCUSIPLength(n) == Result("Err", "InvalidCUSIPLength", n, EmptyBytes, 0, 0, EmptyBytes)
InvalidPayloadLength(n) == Result("Err", "InvalidPayloadLength", n, EmptyBytes, 0, 0, EmptyBytes)
InvalidIssuerNumLength(n) == Result("Err", "InvalidIssuerNumLength", n, EmptyBytes, 0, 0, EmptyBytes)
InvalidIssueNumLength(n) == Result("Err", "InvalidIssueNumLength", n, EmptyBytes, 0, 0, EmptyBytes)
InvalidIssuerNum(b) == Result("Err", "InvalidIssuerNum", 0, b, 0, 0, EmptyBytes)
InvalidIssueNum(b) == Result("Err", "InvalidIssueNum", 0, b, 0, 0, EmptyBytes)
InvalidCheckDigit(c) == Result("Err", "InvalidCheckDigit", 0, EmptyBytes, c, 0, EmptyBytes)
IncorrectCheckDigit(c, e) == Result("Err", "IncorrectCheckDigit", 0, EmptyBytes, c, e, EmptyBytes)

is_ok(r) == r.tag = "Ok"
is_err(r) == r.tag = "Err"
is_panic(r) == r.tag = "Panic"

(***************************************************************************)
(* lib.rs: check digit and format validators                               *)
(***************************************************************************)
\* compute_check_digit returning the checksum value, not its ASCII digit.
compute_check_digit_raw(s) == checksum_table(s)

\* b'0' + checksum_table(s); a panic of the checksum is a panic of this.
compute_check_digit(s) ==
    LET sum == checksum_table(s) IN IF sum < 0 THEN sum ELSE 48 + sum

\* valid_format_byte without the uppercase test.
valid_format_byte_any_case(b) == is_ascii_digit(b) \/ is_ascii_alphabetic(b)

\* The test both format validators apply to a byte.
valid_format_byte(b) ==
    is_ascii_digit(b) \/ (is_ascii_alphabetic(b) /\ is_ascii_uppercase(b))

validate_issuer_num_format(num) ==
    IF BLen(num) # 6 THEN Panicked
    ELSE IF \E i \in DOMAIN num : ~valid_format_byte(num[i])
         THEN InvalidIssuerNum(num)
         ELSE OkUnit

\* validate_issue_num_format returning id_copy as it was initialised.
validate_issue_num_format_zeroed(num) ==
    IF BLen(num) # 2 THEN Panicked
    ELSE IF \E i \in DOMAIN num : ~valid_format_byte(num[i])
         THEN InvalidIssueNum([i \in 0..1 |-> 0])
         ELSE OkUnit

validate_issue_num_format(num) ==
    IF BLen(num) # 2 THEN Panicked
    ELSE IF \E i \in DOMAIN num : ~valid_format_byte(num[i])
         THEN InvalidIssueNum(num)
         ELSE OkUnit

validate_check_digit_format(cd) ==
    IF ~is_ascii_digit(cd) THEN InvalidCheckDigit(cd) ELSE OkUnit

(***************************************************************************)
(* lib.rs: CUSIP::from_bytes, CUSIP::parse, CUSIP::parse_loose             *)
(***************************************************************************)
\* from_bytes_checksum without the comparison of the check digit.
from_bytes_checksum_unchecked(bytes) == Ok([i \in 0..8 |-> bytes[i]])

\* The tail of from_bytes once the three formats passed.
from_bytes_checksum(bytes) ==
    LET cd == bytes[8]
        payload == Slice(bytes, 0, 8)
        computed_check_digit == compute_check_digit(payload)
    IN  IF computed_check_digit < 0 THEN Panicked
        ELSE IF cd # computed_check_digit
             THEN IncorrectCheckDigit(cd, computed_check_digit)
             ELSE Ok([i \in 0..8 |-> bytes[i]])

\* from_bytes validating the issue number before the issuer number.
from_bytes_issue_first(bytes) ==
    IF BLen(bytes) # 9 THEN InvalidCUSIPLength(BLen(bytes))
    ELSE LET r2 == validate_issue_num_format(Slice(bytes, 6, 8)) IN
         IF ~is_ok(r2) THEN r2
         ELSE LET r1 == validate_issuer_num_format(Slice(bytes, 0, 6)) IN
              IF ~is_ok(r1) THEN r1
              ELSE LET r3 == validate_check_digit_format(bytes[8]) IN
                   IF ~is_ok(r3) THEN r3
                   ELSE from_bytes_checksum(bytes)

from_bytes(bytes) ==
    IF BLen(bytes) # 9 THEN InvalidCUSIPLength(BLen(bytes))
    ELSE LET r1 == validate_issuer_num_format(Slice(bytes, 0, 6)) IN
         IF ~is_ok(r1) THEN r1
         ELSE LET r2 == validate_issue_num_format(Slice(bytes, 6, 8)) IN
              IF ~is_ok(r2) THEN r2
              ELSE LET r3 == validate_check_digit_format(bytes[8]) IN
                   IF ~is_ok(r3) THEN r3
                   ELSE from_bytes_checksum(bytes)

CUSIP_parse(value) == from_bytes(as_bytes(value))

\* parse_loose that trims and leaves the letter case alone.
CUSIP_parse_loose_trim_only(value) == CUSIP_parse(trim(value))

CUSIP_parse_loose(value) == CUSIP_parse(trim(to_ascii_uppercase(value)))

(***************************************************************************)
(* lib.rs: build_from_payload, build_from_parts, validate                  *)
(***************************************************************************)
\* assemble storing the checksum value instead of its ASCII digit.
assemble_raw_digit(b) ==
    LET sum == checksum_table(b) IN
    IF sum < 0 THEN Panicked
    ELSE Ok([i \in 0..8 |-> IF i < 8 THEN b[i] ELSE sum])

\* bb[0..8] = payload bytes, bb[8] = compute_check_digit(payload)
assemble(b) ==
    LET cd == compute_check_digit(b) IN
    IF cd < 0 THEN Panicked
    ELSE Ok([i \in 0..8 |-> IF i < 8 THEN b[i] ELSE cd])

\* build_from_payload reporting a wrong length with the error of from_bytes.
build_from_payload_cusip_length(payload) ==
    IF str_len(payload) # 8 THEN InvalidCUSIPLength(str_len(payload))
    ELSE LET b == Slice(as_bytes(payload), 0, 8)
             r1 == validate_issuer_num_format(Slice(b, 0, 6))
         IN  IF ~is_ok(r1) THEN r1
             ELSE LET r2 == validate_issue_num_format(Slice(b, 6, 8)) IN
                  IF ~is_ok(r2) THEN r2
                  ELSE assemble(b)

build_from_payload(payload) ==
    IF str_len(payload) # 8 THEN InvalidPayloadLength(str_len(payload))
    ELSE LET b == Slice(as_bytes(payload), 0, 8)
             r1 == validate_issuer_num_format(Slice(b, 0, 6))
         IN  IF ~is_ok(r1) THEN r1
             ELSE LET r2 == validate_issue_num_format(Slice(b, 6, 8)) IN
                  IF ~is_ok(r2) THEN r2
                  ELSE assemble(b)

\* build_from_parts without the format check of the issue number.
build_from_parts_unchecked_issue(issuer_num, issue_num) ==
    IF str_len(issuer_num) # 6 THEN InvalidIssuerNumLength(str_len(issuer_num))
    ELSE LET issuer == Slice(as_bytes(issuer_num), 0, 6)
             r1 == validate_issuer_num_format(issuer)
         IN  IF ~is_ok(r1) THEN r1
             ELSE IF str_len(issue_num) # 2
                  THEN InvalidIssueNumLength(str_len(issue_num))
                  ELSE LET issue == Slice(as_bytes(issue_num), 0, 2)
                       IN  assemble([i \in 0..7 |->
                               IF i < 6 THEN issuer[i] ELSE issue[i - 6]])

\* build_from_parts checking both lengths before either format.
build_from_parts_lengths_first(issuer_num, issue_num) ==
    IF str_len(issuer_num) # 6 THEN InvalidIssuerNumLength(str_len(issuer_num))
    ELSE IF str_len(issue_num) # 2 THEN InvalidIssueNumLength(str_len(issue_num))
    ELSE LET issuer == Slice(as_bytes(issuer_num), 0, 6)
             issue == Slice(as_bytes(issue_num), 0, 2)
             r1 == validate_issuer_num_format(issuer)
         IN  IF ~is_ok(r1) THEN r1
             ELSE LET r2 == validate_issue_num_format(issue) IN
                  IF ~is_ok(r2) THEN r2
                  ELSE assemble([i \in 0..7 |->
                           IF i < 6 THEN issuer[i] ELSE issue[i - 6]])

build_from_parts(issuer_num, issue_num) ==
    IF str_len(issuer_num) # 6 THEN InvalidIssuerNumLength(str_len(issuer_num))
    ELSE LET issuer == Slice(as_bytes(issuer_num), 0, 6)
             r1 == validate_issuer_num_format(issuer)
         IN  IF ~is_ok(r1) THEN r1
             ELSE IF str_len(issue_num) # 2
                  THEN InvalidIssueNumLength(str_len(issue_num))
                  ELSE LET issue == Slice(as_bytes(issue_num), 0, 2)
                           r2 == validate_issue_num_format(issue)
                       IN  IF ~is_ok(r2) THEN r2
                           ELSE assemble([i \in 0..7 |->
                                    IF i < 6 THEN issuer[i] ELSE issue[i - 6]])

\* validate written through FromStr, which parses loosely.
validate_from_str(value) == Ok(is_ok(CUSIP_parse_loose(value)))

\* validate returns a bool; a panic inside it is the Panic result.
validate(value) ==
    IF str_len(value) # 9 THEN Ok(FALSE)
    ELSE LET b == as_bytes(value)
             r1 == validate_issuer_num_format(Slice(b, 0, 6))
             r2 == validate_issue_num_format(Slice(b, 6, 8))
             check_digit == b[8]
             r3 == validate_check_digit_format(check_digit)
             computed_check_digit == compute_check_digit(Slice(b, 0, 8))
         IN  IF is_panic(r1) THEN Panicked
             ELSE IF is_err(r1) THEN Ok(FALSE)
             ELSE IF is_panic(r2) THEN Panicked
             ELSE IF is_err(r2) THEN Ok(FALSE)
             ELSE IF is_err(r3) THEN Ok(FALSE)
             ELSE IF computed_check_digit < 0 THEN Panicked
             ELSE Ok(~(check_digit # computed_check_digit))

(***************************************************************************)
(* lib.rs: the CUSIP value, a [u8; 9]                                      *)
(***************************************************************************)
\* to_string writing the payload only.
to_string_payload(c) == from_utf8_unchecked(Slice(c, 0, 8))

\* impl Display for CUSIP; to_string() is the text Display writes.
to_string(c) == from_utf8_unchecked(Slice(c, 0, 9))

issuer_num(c) == from_utf8_unchecked(Slice(c, 0, 6))

issue_num(c) == from_utf8_unchecked(Slice(c, 6, 8))

payload(c) == from_utf8_unchecked(Slice(c, 0, 8))

check_digit(c) == c[8]

(***************************************************************************)
(* lib.rs: CINS predicates on the first byte.  Each is a match whose last  *)
(* arm panics, so each returns Ok(value) or the Panic result.  An Option   *)
(* is a sequence: None is <<>>, Some(x) is <<x>>.                          *)
(***************************************************************************)
None == <<>>

Some(x) == <<x>>

\* is_cins that leaves out the unused country codes I, O and Z.
is_cins_assigned_only(byte) ==
    IF byte >= 48 /\ byte <= 57 THEN Ok(FALSE)
    ELSE IF byte >= 65 /\ byte <= 90 THEN Ok(byte \notin {73, 79, 90})
    ELSE Panicked

is_cins(byte) ==
    IF byte >= 48 /\ byte <= 57 THEN Ok(FALSE)
    ELSE IF byte >= 65 /\ byte <= 90 THEN Ok(TRUE)
    ELSE Panicked

is_cins_base(byte) ==
    IF byte >= 48 /\ byte <= 57 THEN Ok(FALSE)
    ELSE IF byte >= 65 /\ byte <= 72 THEN Ok(TRUE)
    ELSE IF byte = 73 THEN Ok(FALSE)
    ELSE IF byte >= 74 /\ byte <= 78 THEN Ok(TRUE)
    ELSE IF byte = 79 THEN Ok(FALSE)
    ELSE IF byte >= 80 /\ byte <= 89 THEN Ok(TRUE)
    ELSE IF byte = 90 THEN Ok(FALSE)
    ELSE Panicked

\* is_cins_extended whose arm for 'O' is merged into the range 'J'..='Y'.
is_cins_extended_without_O(byte) ==
    IF byte >= 48 /\ byte <= 57 THEN Ok(FALSE)
    ELSE IF byte >= 65 /\ byte <= 72 THEN Ok(FALSE)
    ELSE IF byte = 73 THEN Ok(TRUE)
    ELSE IF byte >= 74 /\ byte <= 89 THEN Ok(FALSE)
    ELSE IF byte = 90 THEN Ok(TRUE)
    ELSE Panicked

is_cins_extended(byte) ==
    IF byte >= 48 /\ byte <= 57 THEN Ok(FALSE)
    ELSE IF byte >= 65 /\ byte <= 72 THEN Ok(FALSE)
    ELSE IF byte = 73 THEN Ok(TRUE)
    ELSE IF byte >= 74 /\ byte <= 78 THEN Ok(FALSE)
    ELSE IF byte = 79 THEN Ok(TRUE)
    ELSE IF byte >= 80 /\ byte <= 89 THEN Ok(FALSE)
    ELSE IF byte = 90 THEN Ok(TRUE)
    ELSE Panicked

cins_country_code(byte) ==
    IF byte >= 48 /\ byte <= 57 THEN Ok(None)
    ELSE IF byte >= 65 /\ byte <= 90 THEN Ok(Some(byte))
    ELSE Panicked

(***************************************************************************)
(* lib.rs: impl CUSIP, the CINS and private-use methods                    *)
(***************************************************************************)
CUSIP_is_cins(c) == is_cins(c[0])

CUSIP_is_cins_base(c) == is_cins_base(c[0])

CUSIP_is_cins_extended(c) == is_cins_extended(c[0])

CUSIP_cins_country_code(c) == cins_country_code(c[0])

\* case1 looking one byte too far to the right.
private_issuer_case1_shifted(bs) == bs[4] = 57 /\ bs[5] = 57

\* "???99?"
private_issuer_case1(bs) == bs[3] = 57 /\ bs[4] = 57

\* case2 that also wants a digit in the last byte of the issuer number.
private_issuer_case2_all_digits(bs) ==
    /\ bs[0] = 57
    /\ bs[1] = 57
    /\ is_ascii_digit(bs[2])
    /\ is_ascii_digit(bs[3])
    /\ is_ascii_digit(bs[4])
    /\ is_ascii_digit(bs[5])

\* "99000?" to "99999?"
private_issuer_case2(bs) ==
    /\ bs[0] = 57
    /\ bs[1] = 57
    /\ is_ascii_digit(bs[2])
    /\ is_ascii_digit(bs[3])
    /\ is_ascii_digit(bs[4])

has_private_issuer(c) == private_issuer_case1(c) \/ private_issuer_case2(c)

\* is_private_issue whose letter range runs to 'Z'.
is_private_issue_through_Z(c) ==
    LET nine_tens == c[6] = 57
        digit_ones == is_ascii_digit(c[7])
        letter_ones == c[7] >= 65 /\ c[7] <= 90
    IN  nine_tens /\ (digit_ones \/ letter_ones)

is_private_issue(c) ==
    LET nine_tens == c[6] = 57
        digit_ones == is_ascii_digit(c[7])
        letter_ones == c[7] >= 65 /\ c[7] <= 89
    IN  nine_tens /\ (digit_ones \/ letter_ones)

is_private_use(c) == has_private_issuer(c) \/ is_private_issue(c)

(***************************************************************************)
(* lib.rs: CINS, a view that wraps a reference to a CUSIP.  The view is    *)
(* modelled by the [u8; 9] it refers to.                                   *)
(***************************************************************************)
\* CINS::new admitting only the assigned country codes.
CINS_new_base_only(c) ==
    LET r == is_cins_base(c[0]) IN
    IF is_panic(r) THEN Panicked
    ELSE IF r.val THEN Ok(Some(c)) ELSE Ok(None)

CINS_new(c) ==
    LET r == is_cins(c[0]) IN
    IF is_panic(r) THEN Panicked
    ELSE IF r.val THEN Ok(Some(c)) ELSE Ok(None)

as_cins(c) == CINS_new(c)

\* The &'static str that TryFrom<&CUSIP> for CINS returns as its error.
NotAValidCINS ==
    Result("Err", "Not a valid CINS", 0, EmptyBytes, 0, 0, EmptyBytes)

\* CINS::new(cusip).ok_or("Not a valid CINS")
CINS_try_from(c) ==
    LET r == CINS_new(c) IN
    IF is_panic(r) THEN Panicked
    ELSE IF r.val = None THEN NotAValidCINS ELSE Ok(r.val[1])

CINS_as_cusip(v) == v

CINS_country_code(v) == v[0]

CINS_is_base(v) == is_cins_base(v[0])

CINS_is_extended(v) == is_cins_extended(v[0])

\* CINS::issuer_num starting at the country code.
CINS_issuer_num_from_country_code(v) == from_utf8_unchecked(Slice(v, 0, 5))

CINS_issuer_num(v) == from_utf8_unchecked(Slice(v, 1, 6))

CINS_issue_num(v) == from_utf8_unchecked(Slice(v, 6, 8))

(***************************************************************************)
(* The caller.  It holds a string `text`, the last result `res` an entry   *)
(* point returned for it, and `cusip`, an identifier it got from a         *)
(* construction and rendered with to_string (EmptyBytes when it holds      *)
(* none, or when text is no longer that rendering up to letter case and    *)
(* surrounding whitespace).  The entry points are pure: the caller calls   *)
(* one on a string it has just prepared (Fresh), and a second call on the  *)
(* same string starts from the same prepared state.                        *)
(***************************************************************************)
\* Strings of the crate's tests (lib.rs tests): "09739D100", "\t09739d100    ",
\* "S08000AA9", "837649128", "", "99999zAA5", "99999Zaa5".
Seeds ==
    { <<48, 57, 55, 51, 57, 68, 49, 48, 48>>,
      <<9, 48, 57, 55, 51, 57, 100, 49, 48, 48, 32, 32, 32, 32>>,
      <<83, 48, 56, 48, 48, 48, 65, 65, 57>>,
      <<56, 51, 55, 54, 52, 57, 49, 50, 56>>,
      <<>>,
      <<57, 57, 57, 57, 57, 122, 65, 65, 53>>,
      <<57, 57, 57, 57, 57, 90, 97, 97, 53>> }

\* Scalar values the caller types: digits 0 1 9, letters A I O Y Z, lowercase
\* a z, the PPN characters '*' '@' '#', space, tab, U+00E9 (two bytes) and
\* U+3000 (three bytes, whitespace).
Chars ==
    {48, 49, 57, 65, 73, 79, 89, 90, 97, 122, 42, 64, 35, 32, 9, 233, 12288}

\* The whitespace the caller pads a rendered identifier with.
PadChars == {32, 9, 12288}

\* Where the caller cuts text into an issuer and an issue string.
SplitPoints == 5..7

NoCusip == EmptyBytes

NoRes == [op |-> "none", out |-> OkUnit]

Called(op, out) == [op |-> op, out |-> out]

ConstructionOps ==
    {"parse", "parse_loose", "build_from_payload", "build_from_parts"}

\* No entry point has been called on text yet.
Fresh == res.op \in {"none", "to_string"}

Init ==
    /\ text \in Seeds
    /\ cusip = NoCusip
    /\ res = NoRes
    /\ edits = 0

\* The caller overwrites one character.
Subst ==
    /\ edits < MaxEdits
    /\ \E i \in 1..Len(text), c \in Chars :
          /\ text[i] # c
          /\ text' = [text EXCEPT ![i] = c]
    /\ cusip' = NoCusip
    /\ res' = NoRes
    /\ edits' = edits + 1

\* The caller adds a character in front.
PrependChar ==
    /\ edits < MaxEdits
    /\ \E c \in Chars :
          /\ text' = <<c>> \o text
          /\ cusip' = IF c \in PadChars THEN cusip ELSE NoCusip
    /\ res' = NoRes
    /\ edits' = edits + 1

\* The caller adds a character at the end.
AppendChar ==
    /\ edits < MaxEdits
    /\ \E c \in Chars :
          /\ text' = text \o <<c>>
          /\ cusip' = IF c \in PadChars THEN cusip ELSE NoCusip
    /\ res' = NoRes
    /\ edits' = edits + 1

\* The caller removes the last character.
DropLast ==
    /\ edits < MaxEdits
    /\ text # <<>>
    /\ text' = SubSeq(text, 1, Len(text) - 1)
    /\ cusip' = NoCusip
    /\ res' = NoRes
    /\ edits' = edits + 1

\* The caller writes one uppercase letter in lowercase.
Lower ==
    /\ edits < MaxEdits
    /\ \E i \in 1..Len(text) :
          /\ is_ascii_uppercase(text[i])
          /\ text' = [text EXCEPT ![i] = text[i] + 32]
    /\ res' = NoRes
    /\ edits' = edits + 1
    /\ UNCHANGED cusip

Parse ==
    /\ Fresh
    /\ res' = Called("parse", CUSIP_parse(text))
    /\ UNCHANGED <<text, cusip, edits>>

ParseLoose ==
    /\ Fresh
    /\ res' = Called("parse_loose", CUSIP_parse_loose(text))
    /\ UNCHANGED <<text, cusip, edits>>

Validate ==
    /\ Fresh
    /\ res' = Called("validate", validate(text))
    /\ UNCHANGED <<text, cusip, edits>>

BuildFromPayload ==
    /\ Fresh
    /\ res' = Called("build_from_payload", build_from_payload(text))
    /\ UNCHANGED <<text, cusip, edits>>

\* build_from_parts on text cut after its first k characters; the result
\* keeps the two arguments of the call.
BuildFromParts ==
    /\ Fresh
    /\ \E k \in SplitPoints :
          /\ k <= Len(text)
          /\ res' = [op |-> "build_from_parts",
                      out |-> build_from_parts(SubSeq(text, 1, k),
                                               SubSeq(text, k + 1, Len(text))),
                      issuer_num |-> SubSeq(text, 1, k),
                      issue_num |-> SubSeq(text, k + 1, Len(text))]
    /\ UNCHANGED <<text, cusip, edits>>

\* Both checksum strategies on the bytes of text, as the crate's tests and
\* benches call them; val is <<checksum_simple, checksum_table>>.
Checksums ==
    /\ Fresh
    /\ res' = Called("checksums",
                     Ok(<<checksum_simple(as_bytes(text)),
                          checksum_table(as_bytes(text))>>))
    /\ UNCHANGED <<text, cusip, edits>>

\* compute_check_digit on the bytes of text; val is <<digit>>.
ComputeCheckDigit ==
    /\ Fresh
    /\ res' = Called("compute_check_digit",
                     Ok(<<compute_check_digit(as_bytes(text))>>))
    /\ UNCHANGED <<text, cusip, edits>>

\* The caller keeps the identifier a construction returned and renders it.
Render ==
    /\ res.op \in ConstructionOps
    /\ is_ok(res.out)
    /\ cusip' = res.out.val
    /\ text' = to_string(res.out.val)
    /\ res' = Called("to_string", OkUnit)
    /\ UNCHANGED edits

\* What the CUSIP methods return for identifier c, the receiver kept as `this`.
Classification(c) ==
    [this |-> c,
     is_cins |-> CUSIP_is_cins(c),
     is_cins_base |-> CUSIP_is_cins_base(c),
     is_cins_extended |-> CUSIP_is_cins_extended(c),
     cins_country_code |-> CUSIP_cins_country_code(c),
     has_private_issuer |-> has_private_issuer(c),
     is_private_issue |-> is_private_issue(c),
     is_private_use |-> is_private_use(c)]

\* What the CINS methods return for view v.
ViewReadings(v) ==
    [as_cusip |-> CINS_as_cusip(v),
     country_code |-> CINS_country_code(v),
     is_base |-> CINS_is_base(v),
     is_extended |-> CINS_is_extended(v),
     issuer_num |-> CINS_issuer_num(v),
     issue_num |-> CINS_issue_num(v)]

\* The three ways to a CINS view of identifier c, and the readings of the
\* view as_cins returned (None when it returned none).
Conversions(c) ==
    [this |-> c,
     as_cins |-> as_cins(c),
     new |-> CINS_new(c),
     try_from |-> CINS_try_from(c),
     readings |-> IF is_ok(as_cins(c)) /\ as_cins(c).val # None
                  THEN Some(ViewReadings(as_cins(c).val[1]))
                  ELSE None]

\* The caller asks the identifier a construction returned what it is.
Classify ==
    /\ res.op \in ConstructionOps
    /\ is_ok(res.out)
    /\ res' = Called("classify", Ok(Classification(res.out.val)))
    /\ UNCHANGED <<text, cusip, edits>>

\* The caller converts the identifier a construction returned to a CINS view
\* and reads the view.
AsCins ==
    /\ res.op \in ConstructionOps
    /\ is_ok(res.out)
    /\ res' = Called("as_cins", Ok(Conversions(res.out.val)))
    /\ UNCHANGED <<text, cusip, edits>>

Next ==
    \/ Subst
    \/ PrependChar
    \/ AppendChar
    \/ DropLast
    \/ Lower
    \/ Parse
    \/ ParseLoose
    \/ Validate
    \/ BuildFromPayload
    \/ BuildFromParts
    \/ Checksums
    \/ ComputeCheckDigit
    \/ Render
    \/ Classify
    \/ AsCins

Spec == Init /\ [][Next]_vars

(***************************************************************************)
(* The payload caller: it prepares strings over the 36-symbol alphabet and *)
(* hands them to the checksum engine and to build_from_payload.            *)
(***************************************************************************)
\* '0'..'9' and 'A'..'Z'
Alphabet == (48..57) \cup (65..90)

\* The payloads of the test strings above, "" and "00" (checksum.rs tests
\* put each symbol beside a single zero), and "ZZZZZZZZ" of the benches.
PayloadSeeds ==
    { <<48, 57, 55, 51, 57, 68, 49, 48>>,
      <<90, 90, 90, 90, 90, 90, 90, 90>>,
      <<83, 48, 56, 48, 48, 48, 65, 65>>,
      <<56, 51, 55, 54, 52, 57, 49, 50>>,
      <<57, 57, 57, 57, 57, 90, 65, 65>>,
      <<>>,
      <<48, 48>> }

InitPayload ==
    /\ text \in PayloadSeeds
    /\ cusip = NoCusip
    /\ res = NoRes
    /\ edits = 0

\* The caller overwrites one symbol by another of the alphabet.
SubstSymbol ==
    /\ edits < MaxEdits
    /\ \E i \in 1..Len(text), c \in Alphabet :
          /\ text[i] # c
          /\ text' = [text EXCEPT ![i] = c]
    /\ cusip' = NoCusip
    /\ res' = NoRes
    /\ edits' = edits + 1

\* The caller adds a symbol of the alphabet at the end.
AppendSymbol ==
    /\ edits < MaxEdits
    /\ \E c \in Alphabet : text' = text \o <<c>>
    /\ cusip' = NoCusip
    /\ res' = NoRes
    /\ edits' = edits + 1

NextPayload ==
    \/ SubstSymbol
    \/ AppendSymbol
    \/ DropLast
    \/ Checksums
    \/ ComputeCheckDigit
    \/ BuildFromPayload
    \/ Classify
    \/ AsCins

SpecPayload == InitPayload /\ [][NextPayload]_vars

(***************************************************************************)
(* The check-digit caller: it prepares payloads, mostly of digits, tries   *)
(* the ten digits after a payload and mistypes a digit of an identifier.   *)
(***************************************************************************)
\* The symbols this caller writes: '0'..'9', 'A' and 'Z'.
DigitSymbols == (48..57) \cup {65, 90}

\* The caller overwrites one symbol of a payload by a digit, 'A' or 'Z'.
SubstDigit ==
    /\ edits < MaxEdits
    /\ \E i \in 1..Len(text), c \in DigitSymbols :
          /\ text[i] # c
          /\ text' = [text EXCEPT ![i] = c]
    /\ cusip' = NoCusip
    /\ res' = NoRes
    /\ edits' = edits + 1

\* The caller writes each of the ten digits after text and parses the
\* result strictly; val maps the digit to what parse returned.
ParseEachDigit ==
    /\ Fresh
    /\ res' = Called("parse_each_digit",
                     Ok([d \in 48..57 |-> CUSIP_parse(text \o <<d>>)]))
    /\ UNCHANGED <<text, cusip, edits>>

\* The caller has an identifier of nine digits from a construction, writes
\* it out with one digit replaced by another and parses that strictly.
Mistype ==
    /\ res.op \in ConstructionOps
    /\ is_ok(res.out)
    /\ \A i \in 0..8 : is_ascii_digit(res.out.val[i])
    /\ \E i \in 1..9, d \in 48..57 :
          /\ d # res.out.val[i - 1]
          /\ res' = [op |-> "mistype",
                      out |-> CUSIP_parse([to_string(res.out.val) EXCEPT ![i] = d]),
                      this |-> res.out.val,
                      at |-> i,
                      digit |-> d]
    /\ UNCHANGED <<text, cusip, edits>>

NextDigits ==
    \/ SubstDigit
    \/ BuildFromPayload
    \/ ParseEachDigit
    \/ Mistype

SpecDigits == InitPayload /\ [][NextDigits]_vars

(***************************************************************************)
(* The long-input caller: it hands the two checksum strategies strings     *)
(* long enough for their accumulators to reach the guards.                 *)
(***************************************************************************)
\* The input lengths below which the comments in checksum_simple and
\* checksum_table say the guard cannot trigger.
SIMPLE_SAFE_LEN == 18

TABLE_SAFE_LEN == 28

\* 'T' (29, the largest plain step 2 + 9) at odd and 'Y' (34, the largest
\* doubled step 6 + 8) at even positions counted from 1.
TYPattern(n) == [i \in 1..n |-> IF i % 2 = 1 THEN 84 ELSE 89]

\* '9', the largest entry of both tables.
Nines(n) == [i \in 1..n |-> 57]

\* The most taxing strings just below the two lengths, the shortest ones on
\* which the guard of checksum_simple resp. checksum_table is true, and the
\* payload "ZZZZZZZZ" of the benches.
LongSeeds ==
    { TYPattern(SIMPLE_SAFE_LEN - 1), TYPattern(SIMPLE_SAFE_LEN + 3),
      Nines(TABLE_SAFE_LEN - 1), Nines(TABLE_SAFE_LEN + 1),
      <<90, 90, 90, 90, 90, 90, 90, 90>> }

\* The symbols the caller writes into a long string: '0' '9' 'T' 'Y'.
LongSymbols == {48, 57, 84, 89}

InitLong ==
    /\ text \in LongSeeds
    /\ cusip = NoCusip
    /\ res = NoRes
    /\ edits = 0

\* The caller overwrites one symbol of a long string.
SubstLong ==
    /\ edits < MaxEdits
    /\ \E i \in 1..Len(text), c \in LongSymbols :
          /\ text[i] # c
          /\ text' = [text EXCEPT ![i] = c]
    /\ cusip' = NoCusip
    /\ res' = NoRes
    /\ edits' = edits + 1

\* The caller adds a symbol at the end of a long string.
AppendLong ==
    /\ edits < MaxEdits
    /\ \E c \in LongSymbols : text' = text \o <<c>>
    /\ cusip' = NoCusip
    /\ res' = NoRes
    /\ edits' = edits + 1

NextLong ==
    \/ SubstLong
    \/ AppendLong
    \/ DropLast
    \/ Checksums

SpecLong == InitLong /\ [][NextLong]_vars

(***************************************************************************)
(* Properties                                                              *)
(***************************************************************************)
InAlphabet(b) == \A i \in DOMAIN b : b[i] \in Alphabet

\* A [u8; 9] of alphabet bytes whose last byte is the check digit of the rest.
WellFormed(v) ==
    /\ DOMAIN v = 0..8
    /\ InAlphabet(v)
    /\ is_ascii_digit(v[8])
    /\ v[8] = compute_check_digit(Slice(v, 0, 8))

\* The character value, the fold and the digit as the standard states them:
\* positions counted from 1, left to right, even positions doubled.
RefValue(c) == IF c >= 48 /\ c <= 57 THEN c - 48 ELSE c - 55

Fold(x) == (x \div 10) + (x % 10)

RECURSIVE RefSum(_, _)
RefSum(b, n) ==
    IF n = 0 THEN 0
    ELSE RefSum(b, n - 1)
         + (IF n % 2 = 1 THEN Fold(RefValue(b[n - 1]))
                         ELSE Fold(2 * RefValue(b[n - 1])))

RefDigit(b) == (10 - (RefSum(b, BLen(b)) % 10)) % 10

\* C1: every identifier a construction path (parse / from_bytes, parse_loose,
\* build_from_payload, build_from_parts) returns as Ok, and every identifier
\* the caller holds, is 9 bytes of '0'-'9' / 'A'-'Z' whose 9th byte is a
\* decimal digit equal to compute_check_digit of the first 8.
C1_ValidatedIdentifier ==
    /\ (res.op \in ConstructionOps /\ is_ok(res.out)) => WellFormed(res.out.val)
    /\ cusip # NoCusip => WellFormed(cusip)

\* C1 witness: a loose parse of an edited rendering returned an identifier
\* while the caller holds one.
C1_Witness ==
    /\ res.op = "parse_loose"
    /\ is_ok(res.out)
    /\ cusip # NoCusip
    /\ edits > 0

\* C2: on every string of length 8 over the alphabet, checksum_simple and
\* checksum_table return the same value, a digit value 0..9.
C2_ChecksumsAgreeOnPayloads ==
    (res.op = "checksums" /\ BLen(as_bytes(text)) = 8 /\ InAlphabet(as_bytes(text)))
        => (res.out.val[1] = res.out.val[2] /\ res.out.val[1] \in 0..9)

\* C2 witness: both strategies ran on an 8-symbol string that is not a seed.
C2_Witness ==
    /\ res.op = "checksums"
    /\ BLen(as_bytes(text)) = 8
    /\ text \notin PayloadSeeds
    /\ res.out.val[1] = res.out.val[2]

\* C3 as stated: on every sequence over the alphabet, of any length, the two
\* strategies return the same value.
C3_ChecksumsAgreeAnyLength ==
    (res.op = "checksums" /\ InAlphabet(as_bytes(text)))
        => res.out.val[1] = res.out.val[2]

\* C3 amended: on every sequence over the alphabet of even length (the empty
\* sequence included), the two strategies return the same value.
C3_ChecksumsAgreeEvenLength ==
    (res.op = "checksums" /\ InAlphabet(as_bytes(text))
        /\ BLen(as_bytes(text)) % 2 = 0)
        => res.out.val[1] = res.out.val[2]

\* C3 witness: both strategies ran on a two-symbol string with a letter.
C3_Witness ==
    /\ res.op = "checksums"
    /\ BLen(as_bytes(text)) = 2
    /\ \E i \in 1..2 : is_ascii_uppercase(text[i])
    /\ res.out.val[1] = res.out.val[2]

\* C4: for every 8-byte payload over the alphabet, compute_check_digit is
\* '0' + d with d = (10 - (S mod 10)) mod 10, S the left-to-right sum of
\* fold(v) at odd and fold(2v) at even positions; d is in 0..9.
C4_CheckDigitFormula ==
    (res.op = "compute_check_digit" /\ BLen(as_bytes(text)) = 8
        /\ InAlphabet(as_bytes(text)))
        => /\ res.out.val[1] = 48 + RefDigit(as_bytes(text))
           /\ RefDigit(as_bytes(text)) \in 0..9

\* C4 witness: a payload whose sum S is a positive multiple of 10 got '0'.
C4_Witness ==
    /\ res.op = "compute_check_digit"
    /\ BLen(as_bytes(text)) = 8
    /\ InAlphabet(as_bytes(text))
    /\ RefSum(as_bytes(text), 8) > 0
    /\ RefSum(as_bytes(text), 8) % 10 = 0
    /\ res.out.val[1] = 48

\* C5: validate(text) is true exactly when strict parse of text is Ok, seen
\* from a call of either.
C5_ValidateIffParse ==
    /\ res.op = "validate" =>
          /\ is_ok(res.out)
          /\ res.out.val = is_ok(CUSIP_parse(text))
    /\ res.op = "parse" =>
          /\ is_ok(validate(text))
          /\ validate(text).val = is_ok(res.out)

\* C5 witness: validate returned true on a string the caller edited.
C5_Witness ==
    /\ res.op = "validate"
    /\ is_ok(res.out)
    /\ res.out.val = TRUE
    /\ edits > 0

\* C6: to_string of an identifier is exactly its 9 bytes, and strict parse of
\* that string is Ok of the same identifier.
C6_RoundTrip ==
    /\ res.op = "to_string" =>
          /\ Len(text) = 9
          /\ \A i \in 1..9 : text[i] = cusip[i - 1]
    /\ (res.op = "parse" /\ cusip # NoCusip /\ text = to_string(cusip)) =>
          res.out = Ok(cusip)

\* C6 witness: strict parse ran on the rendering of a held identifier.
C6_Witness ==
    /\ res.op = "parse"
    /\ cusip # NoCusip
    /\ text = to_string(cusip)
    /\ is_ok(res.out)

\* C7: build_from_payload of an 8-byte payload p over the alphabet is Ok, its
\* payload() is p, its check_digit() is compute_check_digit(p), and strict
\* parse accepts its 9-character string.
C7_BuildParseConsistency ==
    (res.op = "build_from_payload" /\ str_len(text) = 8
        /\ InAlphabet(as_bytes(text)))
        => /\ is_ok(res.out)
           /\ payload(res.out.val) = text
           /\ check_digit(res.out.val) = compute_check_digit(as_bytes(text))
           /\ Len(to_string(res.out.val)) = 9
           /\ CUSIP_parse(to_string(res.out.val)) = Ok(res.out.val)

\* C7 witness: build_from_payload returned Ok for a payload that is not a seed.
C7_Witness ==
    /\ res.op = "build_from_payload"
    /\ is_ok(res.out)
    /\ text \notin PayloadSeeds

\* C8: loose parse of an identifier's rendering, also with letters in
\* lowercase and whitespace added in front or at the end, is Ok of that
\* identifier.
C8_LooseParseCanonical ==
    (res.op = "parse_loose" /\ cusip # NoCusip) => res.out = Ok(cusip)

\* C8 witness: loose parse ran on a rendering the caller edited.
C8_Witness ==
    /\ res.op = "parse_loose"
    /\ cusip # NoCusip
    /\ text # to_string(cusip)
    /\ res.out = Ok(cusip)

\* C9: parse, parse_loose, validate, build_from_payload and build_from_parts
\* return Ok or one of the structured errors on every input; none panics.
C9_NoPanic ==
    res.op \in (ConstructionOps \cup {"validate"}) =>
        \/ is_ok(res.out)
        \/ (is_err(res.out) /\ res.out.kind \in ErrorKinds)

\* C9 witness: an entry point returned an error for bytes of a multi-byte
\* character that fill an issuer number of the right length.
C9_Witness ==
    /\ res.op = "build_from_parts"
    /\ is_err(res.out)
    /\ res.out.kind = "InvalidIssuerNum"
    /\ \E i \in DOMAIN res.out.bytes : res.out.bytes[i] >= 128

\* The error strict parse is to report for bytes b: the first failing check
\* in the order length, issuer, issue, check digit format, check digit
\* value; "" when none fails.
FirstFailing(b) ==
    IF BLen(b) # 9 THEN "InvalidCUSIPLength"
    ELSE IF \E i \in 0..5 : b[i] \notin Alphabet THEN "InvalidIssuerNum"
    ELSE IF \E i \in 6..7 : b[i] \notin Alphabet THEN "InvalidIssueNum"
    ELSE IF b[8] \notin 48..57 THEN "InvalidCheckDigit"
    ELSE IF b[8] # 48 + RefDigit(Slice(b, 0, 8)) THEN "IncorrectCheckDigit"
    ELSE ""

\* C10: strict parse reports exactly the first failing check in the order
\* length, issuer number, issue number, check digit format, check digit
\* value, and is Ok when none fails.
C10_FirstFailingCheck ==
    res.op = "parse" =>
        IF FirstFailing(as_bytes(text)) = ""
        THEN is_ok(res.out)
        ELSE is_err(res.out) /\ res.out.kind = FirstFailing(as_bytes(text))

\* C10 witness: a string with a bad character in the issuer number and in the
\* issue number was reported as InvalidIssuerNum.
C10_Witness ==
    /\ res.op = "parse"
    /\ BLen(as_bytes(text)) = 9
    /\ \E i \in 0..5 : as_bytes(text)[i] \notin Alphabet
    /\ \E i \in 6..7 : as_bytes(text)[i] \notin Alphabet
    /\ res.out.kind = "InvalidIssuerNum"

\* C11: build_from_payload fails only with InvalidPayloadLength,
\* InvalidIssuerNum or InvalidIssueNum (never a check digit error, never
\* InvalidCUSIPLength, never a panic), and is Ok on every 8-byte string over
\* '0'-'9' / 'A'-'Z'.
C11_BuildFromPayloadErrors ==
    res.op = "build_from_payload" =>
        /\ \/ is_ok(res.out)
           \/ /\ is_err(res.out)
              /\ res.out.kind \in
                    {"InvalidPayloadLength", "InvalidIssuerNum", "InvalidIssueNum"}
        /\ (str_len(text) = 8 /\ InAlphabet(as_bytes(text))) => is_ok(res.out)

\* C11 witness: build_from_payload rejected an 8-byte string the caller cut
\* from a longer one for its issue number.
C11_Witness ==
    /\ res.op = "build_from_payload"
    /\ edits > 0
    /\ str_len(text) = 8
    /\ is_err(res.out)
    /\ res.out.kind = "InvalidIssueNum"

\* C12: is_cins() is true exactly when the first byte of the identifier is a
\* letter 'A'-'Z'; the unused country codes I, O and Z count as CINS.
C12_IsCinsIffLetter ==
    res.op = "classify" =>
        LET c == res.out.val.this
            r == res.out.val.is_cins
        IN  /\ is_ok(r)
            /\ r.val = (c[0] \in 65..90)
            /\ c[0] \in {73, 79, 90} => r.val

\* C12 witness: an identifier starting with 'I' was reported as CINS.
C12_Witness ==
    /\ res.op = "classify"
    /\ res.out.val.this[0] = 73
    /\ is_ok(res.out.val.is_cins)
    /\ res.out.val.is_cins.val

\* C13: as_cins, CINS::new and CINS::try_from give a view, and the view of
\* this identifier, exactly when is_cins() is true (None, None and Err
\* otherwise); cins_country_code() is Some(first character) exactly when
\* is_cins() is true and None otherwise.
C13_ViewIffCins ==
    /\ res.op = "as_cins" =>
          LET c == res.out.val.this
              cins == is_ok(CUSIP_is_cins(c)) /\ CUSIP_is_cins(c).val
              a == res.out.val.as_cins
              n == res.out.val.new
              t == res.out.val.try_from
          IN  /\ is_ok(a) /\ a.val = (IF cins THEN Some(c) ELSE None)
              /\ is_ok(n) /\ n.val = (IF cins THEN Some(c) ELSE None)
              /\ IF cins THEN is_ok(t) /\ t.val = c ELSE is_err(t)
    /\ res.op = "classify" =>
          LET c == res.out.val.this
              cc == res.out.val.cins_country_code
              r == res.out.val.is_cins
          IN  /\ is_ok(cc) /\ is_ok(r)
              /\ cc.val = (IF r.val THEN Some(c[0]) ELSE None)

\* C13 witness: the three conversions gave a view of an identifier whose
\* first byte is one of the unused country codes.
C13_Witness ==
    /\ res.op = "as_cins"
    /\ res.out.val.this[0] \in {73, 79, 90}
    /\ is_ok(res.out.val.as_cins)
    /\ res.out.val.as_cins.val # None
    /\ is_ok(res.out.val.try_from)

\* The decimal number the first n bytes of b spell (all of them digits).
RECURSIVE DecimalValue(_, _)
DecimalValue(b, n) ==
    IF n = 0 THEN 0 ELSE 10 * DecimalValue(b, n - 1) + (b[n - 1] - 48)

AllDigits(b, n) == \A i \in 0..(n - 1) : b[i] \in 48..57

\* C14 as stated: has_private_issuer() is true exactly when positions 4-5 of
\* the issuer number are both '9', or the six characters are all digits and
\* spell a number in 990000..999999.
C14_PrivateIssuerAllDigits ==
    res.op = "classify" =>
        LET c == res.out.val.this IN
        res.out.val.has_private_issuer =
            \/ (c[3] = 57 /\ c[4] = 57)
            \/ (AllDigits(c, 6) /\ DecimalValue(c, 6) \in 990000..999999)

\* C14 amended: has_private_issuer() is true exactly when positions 4-5 of
\* the issuer number are both '9', or its first five characters are all
\* digits and spell a number in 99000..99999, whatever the sixth character.
C14_PrivateIssuerFirstFive ==
    res.op = "classify" =>
        LET c == res.out.val.this IN
        res.out.val.has_private_issuer =
            \/ (c[3] = 57 /\ c[4] = 57)
            \/ (AllDigits(c, 5) /\ DecimalValue(c, 5) \in 99000..99999)

\* C14 witness: an issuer number 99ddd? ending in a letter, without "99" at
\* positions 4-5, was reported as private.
C14_Witness ==
    /\ res.op = "classify"
    /\ res.out.val.this[5] \in 65..90
    /\ ~(res.out.val.this[3] = 57 /\ res.out.val.this[4] = 57)
    /\ res.out.val.has_private_issuer

\* The issuer numbers the crate documentation reserves for private use.
DocReservedIssuer(c) ==
    \/ /\ c[3] = 57 /\ c[4] = 57                  \* ends in "990".."999"
       /\ c[5] \in 48..57
    \/ /\ c[3] = 57 /\ c[4] = 57                  \* ends in "99A".."99Z"
       /\ c[5] \in 65..90
    \/ /\ AllDigits(c, 6)                         \* "990000".."999999"
       /\ DecimalValue(c, 6) \in 990000..999999
    \/ /\ c[0] = 57 /\ c[1] = 57                  \* "99000A".."99999Z"
       /\ \A i \in 2..4 : c[i] \in 48..57
       /\ c[5] \in 65..90

\* C15: has_private_issuer() is true exactly for the issuer numbers the
\* crate documentation reserves: ???99?, 990000..999999 and 99ddd? ending in
\* a letter; it is false for every other issuer number.
C15_PrivateIssuerAsDocumented ==
    res.op = "classify" =>
        res.out.val.has_private_issuer = DocReservedIssuer(res.out.val.this)

\* C15 witness: an issuer number that does not start with '9' and has "99"
\* at positions 4-5 was reported as private.
C15_Witness ==
    /\ res.op = "classify"
    /\ res.out.val.this[0] # 57
    /\ res.out.val.this[3] = 57
    /\ res.out.val.this[4] = 57
    /\ res.out.val.has_private_issuer

\* C16: is_private_issue() is true exactly when the issue number starts with
\* '9' and its second character is a digit or a letter 'A'-'Y' (so "9Z" is
\* not private); is_private_use() is has_private_issuer() or
\* is_private_issue().
C16_PrivateIssue ==
    res.op = "classify" =>
        LET issue == issue_num(res.out.val.this) IN
        /\ res.out.val.is_private_issue =
              (issue[1] = 57 /\ issue[2] \in ((48..57) \cup (65..89)))
        /\ issue = <<57, 90>> => ~res.out.val.is_private_issue
        /\ res.out.val.is_private_use =
              (res.out.val.has_private_issuer \/ res.out.val.is_private_issue)

\* C16 witness: an identifier with issue number "9Z" was reported as not a
\* private issue.
C16_Witness ==
    /\ res.op = "classify"
    /\ issue_num(res.out.val.this) = <<57, 90>>
    /\ ~res.out.val.is_private_issue

\* C17: on a byte sequence with a byte outside '0'-'9' / 'A'-'Z',
\* checksum_simple, checksum_table and compute_check_digit all end in a
\* panic; none returns a value.
C17_PanicOutsideAlphabet ==
    /\ (res.op = "checksums" /\ ~InAlphabet(as_bytes(text)))
          => (res.out.val[1] = PANIC /\ res.out.val[2] = PANIC)
    /\ (res.op = "compute_check_digit" /\ ~InAlphabet(as_bytes(text)))
          => res.out.val[1] = PANIC

\* C17 witness: compute_check_digit panicked on a string with a lowercase
\* letter.
C17_Witness ==
    /\ res.op = "compute_check_digit"
    /\ \E i \in 1..Len(text) : is_ascii_lowercase(text[i])
    /\ res.out.val[1] = PANIC

\* C18 as stated: build_from_parts reports a length error whenever the
\* issuer string is not 6 bytes or the issue string is not 2 bytes.
C18_LengthErrorsFirst ==
    (res.op = "build_from_parts"
        /\ (str_len(res.issuer_num) # 6 \/ str_len(res.issue_num) # 2))
        => /\ is_err(res.out)
           /\ res.out.kind \in {"InvalidIssuerNumLength", "InvalidIssueNumLength"}

\* The error build_from_parts is to report for an issuer and an issue
\* string: the issuer's length, then the issuer's characters, then the
\* issue's length, then the issue's characters; "" when none fails.
FirstFailingPart(issuer, issue) ==
    IF str_len(issuer) # 6 THEN "InvalidIssuerNumLength"
    ELSE IF ~InAlphabet(as_bytes(issuer)) THEN "InvalidIssuerNum"
    ELSE IF str_len(issue) # 2 THEN "InvalidIssueNumLength"
    ELSE IF ~InAlphabet(as_bytes(issue)) THEN "InvalidIssueNum"
    ELSE ""

\* C18 amended: build_from_parts checks each part's length before that
\* part's characters, and the whole issuer number before the issue number:
\* an issuer string that is not 6 bytes gives InvalidIssuerNumLength, a
\* 6-byte issuer string with a character outside 0-9A-Z gives
\* InvalidIssuerNum whatever the issue string, and only then an issue string
\* that is not 2 bytes gives InvalidIssueNumLength.
C18_PartByPart ==
    res.op = "build_from_parts" =>
        IF FirstFailingPart(res.issuer_num, res.issue_num) = ""
        THEN is_ok(res.out)
        ELSE /\ is_err(res.out)
             /\ res.out.kind = FirstFailingPart(res.issuer_num, res.issue_num)

\* C18 witness: an issue string of the wrong length that also has lowercase
\* letters, beside a good issuer string, was reported as InvalidIssueNumLength.
C18_Witness ==
    /\ res.op = "build_from_parts"
    /\ str_len(res.issue_num) # 2
    /\ ~InAlphabet(as_bytes(res.issue_num))
    /\ is_err(res.out)
    /\ res.out.kind = "InvalidIssueNumLength"

\* C19: is_cins() is is_cins_base() or is_cins_extended(), never both;
\* is_cins_extended() is true exactly for a first byte I, O or Z; both are
\* false for a first byte that is a digit; on a view, CINS::is_base and
\* CINS::is_extended are each other's negation.
C19_BaseExtendedPartition ==
    /\ res.op = "classify" =>
          LET c == res.out.val.this
              r == res.out.val.is_cins
              b == res.out.val.is_cins_base
              e == res.out.val.is_cins_extended
          IN  /\ is_ok(r) /\ is_ok(b) /\ is_ok(e)
              /\ r.val = (b.val \/ e.val)
              /\ ~(b.val /\ e.val)
              /\ e.val = (c[0] \in {73, 79, 90})
              /\ c[0] \in 48..57 => (~b.val /\ ~e.val)
    /\ (res.op = "as_cins" /\ res.out.val.readings # None) =>
          LET r == res.out.val.readings[1] IN
          /\ is_ok(r.is_base) /\ is_ok(r.is_extended)
          /\ r.is_base.val = ~r.is_extended.val

\* C19 witness: an identifier starting with 'O' was reported as extended and
\* not base.
C19_Witness ==
    /\ res.op = "classify"
    /\ res.out.val.this[0] = 79
    /\ is_ok(res.out.val.is_cins_extended)
    /\ res.out.val.is_cins_extended.val
    /\ is_ok(res.out.val.is_cins_base)
    /\ ~res.out.val.is_cins_base.val

\* C20: for a CINS view of identifier v, country_code() is byte 0 of v,
\* issuer_num() is the 5 characters of bytes 1..6, issue_num() is
\* v.issue_num(), country_code() followed by issuer_num() is v.issuer_num(),
\* and as_cusip() is v.
C20_ViewReadings ==
    (res.op = "as_cins" /\ res.out.val.readings # None) =>
        LET v == res.out.val.this
            r == res.out.val.readings[1]
        IN  /\ r.country_code = v[0]
            /\ Len(r.issuer_num) = 5
            /\ \A i \in 1..5 : r.issuer_num[i] = v[i]
            /\ r.issue_num = issue_num(v)
            /\ <<r.country_code>> \o r.issuer_num = issuer_num(v)
            /\ r.as_cusip = v

\* C20 witness: a view was read of an identifier built from a payload the
\* caller edited.
C20_Witness ==
    /\ res.op = "as_cins"
    /\ res.out.val.readings # None
    /\ edits > 0
    /\ res.out.val.readings[1].issuer_num # <<>>

\* C21: every error of strict parse carries the raw value it saw:
\* InvalidCUSIPLength the byte length of the input, InvalidIssuerNum bytes
\* 0..6, InvalidIssueNum bytes 6..8, InvalidCheckDigit byte 8,
\* IncorrectCheckDigit byte 8 and, as expected, the check digit of bytes 0..8.
C21_ErrorPayloads ==
    (res.op = "parse" /\ is_err(res.out)) =>
        LET b == as_bytes(text)
            k == res.out.kind
        IN  /\ k \in ErrorKinds
            /\ k = "InvalidCUSIPLength" => res.out.len = BLen(b)
            /\ k = "InvalidIssuerNum" =>
                  /\ DOMAIN res.out.bytes = 0..5
                  /\ \A i \in 0..5 : res.out.bytes[i] = b[i]
            /\ k = "InvalidIssueNum" =>
                  /\ DOMAIN res.out.bytes = 0..1
                  /\ \A i \in 0..1 : res.out.bytes[i] = b[6 + i]
            /\ k = "InvalidCheckDigit" => res.out.was = b[8]
            /\ k = "IncorrectCheckDigit" =>
                  /\ res.out.was = b[8]
                  /\ res.out.expected = 48 + RefDigit(Slice(b, 0, 8))

\* C21 witness: strict parse of an edited string reported the two bytes of
\* its issue number.
C21_Witness ==
    /\ res.op = "parse"
    /\ edits > 0
    /\ is_err(res.out)
    /\ res.out.kind = "InvalidIssueNum"
    /\ res.out.bytes = Slice(as_bytes(text), 6, 8)

\* The string between the first and the last character of s that is not
\* whitespace, with 'a'-'z' written as 'A'-'Z'.
Normalised(s) ==
    LET up == [i \in 1..Len(s) |-> IF s[i] \in 97..122 THEN s[i] - 32 ELSE s[i]]
        kept == {i \in 1..Len(s) : s[i] \notin WhiteSpace}
    IN  IF kept = {} THEN <<>>
        ELSE SubSeq(up, CHOOSE i \in kept : \A j \in kept : i <= j,
                        CHOOSE i \in kept : \A j \in kept : i >= j)

\* C22: parse_loose returns what strict parse returns on the input in
\* uppercase without its leading and trailing whitespace, the same Ok or the
\* same error; nothing else is normalised, so an input that still has
\* whitespace or another character outside 0-9A-Z inside is rejected.
C22_LooseIsStrictOfNormalised ==
    res.op = "parse_loose" =>
        LET n == Normalised(text) IN
        /\ res.out = CUSIP_parse(n)
        /\ (\E i \in 1..Len(n) : n[i] \notin Alphabet) => is_err(res.out)

\* C22 witness: parse_loose rejected a 9-character string with a whitespace
\* character between two characters of the alphabet.
C22_Witness ==
    /\ res.op = "parse_loose"
    /\ Len(Normalised(text)) = 9
    /\ \E i \in 2..8 : Normalised(text)[i] \in WhiteSpace
    /\ is_err(res.out)

\* The sum checksum_table adds up, without a bound: from the right, the
\* folded double of the value at even and the folded value at odd indices
\* counted from 0, each reduced mod 10.
RECURSIVE RefTableSum(_, _)
RefTableSum(b, n) ==
    IF n = 0 THEN 0
    ELSE RefTableSum(b, n - 1)
         + (IF (n - 1) % 2 = 0
            THEN Fold(2 * RefValue(b[BLen(b) - n])) % 10
            ELSE Fold(RefValue(b[BLen(b) - n])) % 10)

\* C23: on input of any length over the alphabet neither strategy's
\* accumulator passes 255 at any step (both return a digit value); one step
\* adds at most 14 in checksum_simple, 14 exactly for value 34 ('Y') in a
\* doubling position, and at most 9 in checksum_table.
C23_NoOverflow ==
    (res.op = "checksums" /\ InAlphabet(as_bytes(text))) =>
        /\ res.out.val[1] \in 0..9
        /\ res.out.val[2] \in 0..9
        /\ \A v \in 0..35, i \in 0..1 :
              /\ Fold(simple_vv(i, v)) <= U8_MAX - MAX_ACCUM_SIMPLE
              /\ (Fold(simple_vv(i, v)) = 14) = (v = 34 /\ i = 1)
              /\ table_v(i, v) <= U8_MAX - MAX_ACCUM_TABLE
              /\ table_v(i, v) <= 9

\* C23 witness: both guards were true on a string with 'Y' in a doubling
\* position, and both strategies returned a digit value.
C23_Witness ==
    /\ res.op = "checksums"
    /\ InAlphabet(as_bytes(text))
    /\ \E i \in 1..Len(text) : i % 2 = 0 /\ text[i] = 89
    /\ simple_guard_fires(as_bytes(text), 0, 0)
    /\ table_guard_fires(as_bytes(text), 0, 0)
    /\ res.out.val[1] \in 0..9
    /\ res.out.val[2] \in 0..9

\* C24: the guard of checksum_simple is never true on input shorter than 18
\* bytes and the guard of checksum_table never on input shorter than 28
\* bytes, so neither is on 8 bytes.
C24_GuardsNeedLongInput ==
    (res.op = "checksums" /\ InAlphabet(as_bytes(text))) =>
        LET b == as_bytes(text) IN
        /\ BLen(b) < SIMPLE_SAFE_LEN => ~simple_guard_fires(b, 0, 0)
        /\ BLen(b) < TABLE_SAFE_LEN => ~table_guard_fires(b, 0, 0)
        /\ BLen(b) = 8 =>
              (~simple_guard_fires(b, 0, 0) /\ ~table_guard_fires(b, 0, 0))

\* C24 witness: the strategies ran on 27 bytes that add 9 at every step of
\* checksum_table, and its guard was not true.
C24_Witness ==
    /\ res.op = "checksums"
    /\ text = Nines(TABLE_SAFE_LEN - 1)
    /\ ~table_guard_fires(as_bytes(text), 0, 0)
    /\ RefTableSum(as_bytes(text), Len(text)) > MAX_ACCUM_TABLE - 9

\* C25: the reduction sum %= 10 of a guard does not change the result: on
\* input of any length over the alphabet checksum_simple is
\* (10 - (S mod 10)) mod 10 for the unbounded left-to-right sum S, and
\* checksum_table the same for the unbounded right-to-left table sum.
C25_EarlyReductionHarmless ==
    (res.op = "checksums" /\ InAlphabet(as_bytes(text))) =>
        LET b == as_bytes(text) IN
        /\ res.out.val[1] = RefDigit(b)
        /\ res.out.val[2] = (10 - (RefTableSum(b, BLen(b)) % 10)) % 10

\* C25 witness: both guards were true on a string whose unbounded sums pass
\* 255 and do not end in 0.
C25_Witness ==
    /\ res.op = "checksums"
    /\ InAlphabet(as_bytes(text))
    /\ simple_guard_fires(as_bytes(text), 0, 0)
    /\ table_guard_fires(as_bytes(text), 0, 0)
    /\ RefSum(as_bytes(text), Len(text)) > U8_MAX
    /\ RefSum(as_bytes(text), Len(text)) % 10 # 0
    /\ RefTableSum(as_bytes(text), Len(text)) > U8_MAX
    /\ res.out.val[1] = RefDigit(as_bytes(text))

\* C26: for every 8-byte payload over the alphabet exactly one of the ten
\* digits, written after it, makes strict parse succeed; for each of the
\* other nine parse returns IncorrectCheckDigit, and the payload followed by
\* that error's expected byte parses.
C26_UniqueCheckDigit ==
    (res.op = "parse_each_digit" /\ str_len(text) = 8
        /\ InAlphabet(as_bytes(text))) =>
        LET r == res.out.val IN
        /\ Cardinality({d \in 48..57 : is_ok(r[d])}) = 1
        /\ \A d \in 48..57 :
              \/ is_ok(r[d])
              \/ /\ is_err(r[d])
                 /\ r[d].kind = "IncorrectCheckDigit"
                 /\ r[d].was = d
                 /\ r[d].expected \in 48..57
                 /\ is_ok(r[r[d].expected])

\* C26 witness: the ten digits were tried after a payload that is not a
\* seed, and the one that parsed is not '0'.
C26_Witness ==
    /\ res.op = "parse_each_digit"
    /\ str_len(text) = 8
    /\ InAlphabet(as_bytes(text))
    /\ text \notin PayloadSeeds
    /\ ~is_ok(res.out.val[48])
    /\ \E d \in 49..57 : is_ok(res.out.val[d])

\* C27: build_from_parts of a 6-byte issuer string and a 2-byte issue string
\* returns what build_from_payload returns for the two written one after
\* the other: the same identifier, or the same InvalidIssuerNum or
\* InvalidIssueNum error.
C27_PartsAsPayload ==
    (res.op = "build_from_parts" /\ str_len(res.issuer_num) = 6
        /\ str_len(res.issue_num) = 2) =>
        /\ res.out = build_from_payload(res.issuer_num \o res.issue_num)
        /\ \/ is_ok(res.out)
           \/ /\ is_err(res.out)
              /\ res.out.kind \in {"InvalidIssuerNum", "InvalidIssueNum"}

\* C27 witness: build_from_parts rejected a 2-byte issue string beside a
\* good 6-byte issuer string, as build_from_payload rejects the two together.
C27_Witness ==
    /\ res.op = "build_from_parts"
    /\ str_len(res.issuer_num) = 6
    /\ str_len(res.issue_num) = 2
    /\ is_err(res.out)
    /\ res.out.kind = "InvalidIssueNum"
    /\ res.out = build_from_payload(text)

\* C28: an identifier of nine decimal digits with any one of them replaced
\* by a different decimal digit is rejected by strict parse with
\* IncorrectCheckDigit; the digit contribution of either table is injective
\* on 0..9.
C28_SingleDigitErrorDetected ==
    res.op = "mistype" =>
        /\ is_err(res.out)
        /\ res.out.kind = "IncorrectCheckDigit"
        /\ \A a \in 0..9, b \in 0..9 :
              a # b => (ODDS(a) # ODDS(b) /\ EVENS(a) # EVENS(b))

\* C28 witness: a digit in a doubling position was replaced by the digit 5
\* away from it, and strict parse answered IncorrectCheckDigit.
C28_Witness ==
    /\ res.op = "mistype"
    /\ res.at \in {2, 4, 6, 8}
    /\ (res.digit - res.this[res.at - 1]) \in {5, -5}
    /\ is_err(res.out)
    /\ res.out.kind = "IncorrectCheckDigit"

====
